---- MODULE Spec2Model ----
(***************************************************************************)
(* A model of the music-stream server: the search route (limit clamping,   *)
(* YouTube scraper, query cache write), the two storage implementations of *)
(* the query cache, the NodeCache-backed track-detail cache, the register  *)
(* and profile routes, and the playlist and track methods of the storages. *)
(*                                                                         *)
(* Strings are sequences of one-character strings, so that toLowerCase,    *)
(* trim and parseInt are computed character by character.                  *)
(***************************************************************************)
EXTENDS Integers, Sequences, FiniteSets, TLC

VARIABLES
    call,            \* the pure-function application under study (limit / scrape)
    backend,         \* which IStorage implementation `storage` is: "mem" or "db"
    musicCache,      \* the query cache: musicCacheMap entries / music_cache rows
    cacheIdCounter,  \* MemStorage.cacheIdCounter / the serial of music_cache.id
    cacheOp,         \* the last direct storage call and what it returned
    analyticsEvents, \* the analytics events stored, oldest first
    requests,        \* the /api/search requests whose fetch is in flight
    silent,          \* those of them whose fetch the platform never answers
    response,        \* the last /api/search response sent, with its request
    searchCache,     \* the NodeCache instance of the routes module
    now,             \* Date.now(), in seconds
    trackResp,       \* the last /api/tracks/:id response
    insertedAt,      \* history: when each key of searchCache was last set
    lookups,         \* the Deezer lookups of /api/tracks/:id in flight, by id
    schema,          \* what the tables of the database declare (shared/schema.ts)
    users,           \* MemStorage.users / the rows of users, in insertion order
    userIdCounter,   \* MemStorage.userIdCounter / the serial of users.id
    registrations,   \* POST /api/register requests hashing their password
    renames,         \* DatabaseStorage.updateUser calls between check and update
    accountResp,     \* the last response of /api/register or /api/user/profile
    playlists,       \* the ids of the playlists stored
    tracks,          \* MemStorage.tracks / the rows of tracks, in insertion order
    trackIdCounter,  \* MemStorage.trackIdCounter / the serial of tracks.id
    deleting,        \* DatabaseStorage.deletePlaylist calls between their deletes
    playlistOp       \* the last storage call on playlists or tracks that settled

accountVars == <<users, userIdCounter, registrations, renames, accountResp>>

playlistVars == <<playlists, tracks, trackIdCounter, deleting, playlistOp>>

libraryVars == <<schema, accountVars, playlistVars>>

detailVars == <<searchCache, now, trackResp, insertedAt, lookups>>

searchVars == <<call, musicCache, cacheIdCounter, cacheOp, analyticsEvents,
                requests, silent, response>>

vars == <<backend, searchVars, detailVars, libraryVars>>

----------------------------------------------------------------------------
(* Bounds of the model *)

MaxParamLen == 3     \* longest maxResults query-string value
MaxQueryLen == 2     \* longest query handed to the storage directly
MaxDocLen == 4       \* longest document, in tokens
MaxCacheId == 2      \* ids the query cache may hand out in one run

----------------------------------------------------------------------------
(* Strings *)

RECURSIVE SeqsUpTo(_, _)
SeqsUpTo(S, n) ==
    IF n = 0 THEN {<<>>}
    ELSE LET shorter == SeqsUpTo(S, n - 1)
         IN  shorter \cup {Append(s, c) : s \in {t \in shorter : Len(t) = n - 1}, c \in S}

Min(a, b) == IF a <= b THEN a ELSE b
Max(a, b) == IF a >= b THEN a ELSE b

IsSpace(c) == c = " "

LowerChar(c) == IF c = "A" THEN "a" ELSE IF c = "B" THEN "b" ELSE c

ToLowerCase(s) == [i \in 1..Len(s) |-> LowerChar(s[i])]

RECURSIVE TrimStart(_)
TrimStart(s) ==
    IF s # <<>> /\ IsSpace(Head(s)) THEN TrimStart(Tail(s)) ELSE s

RECURSIVE TrimEnd(_)
TrimEnd(s) ==
    IF s # <<>> /\ IsSpace(s[Len(s)]) THEN TrimEnd(SubSeq(s, 1, Len(s) - 1)) ELSE s

Trim(s) == TrimEnd(TrimStart(s))

----------------------------------------------------------------------------
(* GET /api/search: the limit computed from the maxResults parameter *)

DefaultLimit == 15
LimitCap == 20

\* what parseInt returns: NaN, or an integer
NaN == [nan |-> TRUE, val |-> 0]
Number(v) == [nan |-> FALSE, val |-> v]

DigitChars == <<"0", "1", "2", "3", "4", "5", "6", "7", "8", "9",
                "a", "b", "c", "d", "e", "f">>
UpperDigitChars == <<"0", "1", "2", "3", "4", "5", "6", "7", "8", "9",
                     "A", "B", "C", "D", "E", "F">>

IsDigit(c, radix) ==
    \E i \in 1..radix : DigitChars[i] = c \/ UpperDigitChars[i] = c

DigitValue(c) ==
    (CHOOSE i \in 1..16 : DigitChars[i] = c \/ UpperDigitChars[i] = c) - 1

\* the value of the longest prefix of s made of digits of the radix,
\* continuing from acc; NaN when no digit was read
RECURSIVE ParseDigits(_, _, _, _)
ParseDigits(s, radix, acc, any) ==
    IF s # <<>> /\ IsDigit(Head(s), radix)
    THEN ParseDigits(Tail(s), radix, acc * radix + DigitValue(Head(s)), TRUE)
    ELSE IF any THEN Number(acc) ELSE NaN

\* parseInt(string) without a radix: leading white space is skipped, a sign
\* is read, a 0x prefix selects radix 16, and the digits that follow are
\* read up to the first character that is no digit
ParseInt(str) ==
    LET s == TrimStart(str)
        neg == s # <<>> /\ Head(s) = "-"
        body == IF s # <<>> /\ Head(s) \in {"-", "+"} THEN Tail(s) ELSE s
        v == IF Len(body) >= 2 /\ body[1] = "0" /\ body[2] \in {"x", "X"}
             THEN ParseDigits(SubSeq(body, 3, Len(body)), 16, 0, FALSE)
             ELSE ParseDigits(body, 10, 0, FALSE)
    IN  IF v.nan THEN NaN ELSE IF neg THEN Number(0 - v.val) ELSE v

\* a query-string parameter: absent, a string, or an array/object
AbsentParam == [kind |-> "absent", chars |-> <<>>]
OtherParam == [kind |-> "other", chars |-> <<>>]
StringParam(s) == [kind |-> "string", chars |-> s]

\* ComputeLimit with the test of parsed <= 0 weakened to parsed < 0
ComputeLimitZeroPasses(maxResults) ==
    IF maxResults.kind = "string"
    THEN LET parsed == ParseInt(maxResults.chars)
         IN  IF parsed.nan \/ parsed.val < 0 THEN DefaultLimit
             ELSE Min(parsed.val, LimitCap)
    ELSE DefaultLimit

ComputeLimit(maxResults) ==
    IF maxResults.kind = "string"
    THEN LET parsed == ParseInt(maxResults.chars)
         IN  IF parsed.nan \/ parsed.val <= 0 THEN DefaultLimit
             ELSE Min(parsed.val, LimitCap)
    ELSE IF maxResults.kind = "absent"
    THEN Min(Max(DefaultLimit, 1), LimitCap)
    ELSE DefaultLimit

----------------------------------------------------------------------------
(* youtube-scraper.ts: the fetched document *)

(* A document is the sequence of the things the scraper can see in it, in   *)
(* document order: the start of a script block, the start of a section of   *)
(* the block's section list, and a result item.  A token outside a script   *)
(* block is plain page text: only the regular expressions see it.           *)

\* a script block: with a decodable ytInitialData holding the section list
\* ("ok"), with the marker but text JSON.parse rejects ("badjson"), with a
\* decodable object lacking the section-list path ("nopath"), or without the
\* marker ("nomarker")
ScriptKinds == {"ok", "badjson", "nopath", "nomarker"}

\* a section: with itemSectionRenderer.contents ("items"), without ("other"),
\* or with contents that cannot be iterated ("broken": for...of throws)
SectionKinds == {"items", "other", "broken"}

NoUrl == <<>>
Url(u) == <<u>>

\* a result item; "" and NoUrl stand for a field that is absent or empty
Item(vr, videoId, titleRuns, simpleText, thumb, owner, byline, length) ==
    [vr |-> vr, videoId |-> videoId, titleRuns |-> titleRuns,
     simpleText |-> simpleText, thumb |-> thumb, owner |-> owner,
     byline |-> byline, length |-> length]

ItemFull == Item(TRUE, "v1", "t1", "", Url("u1"), "c1", "", "3:05")
ItemPlain == Item(TRUE, "v2", "", "s2", NoUrl, "", "b2", "")
ItemBare == Item(TRUE, "v3", "", "", NoUrl, "", "", "")
ItemNoId == Item(TRUE, "", "t4", "", NoUrl, "", "", "")
ItemOther == Item(FALSE, "v1", "", "", NoUrl, "", "", "")

Items == {ItemFull, ItemPlain, ItemBare, ItemNoId, ItemOther}

ScriptToken(k) == [t |-> "script", kind |-> k, item |-> ItemBare]
SectionToken(k) == [t |-> "section", kind |-> k, item |-> ItemBare]
ItemToken(i) == [t |-> "item", kind |-> "", item |-> i]

Tokens ==
    {ScriptToken(k) : k \in ScriptKinds} \cup {SectionToken(k) : k \in SectionKinds}
        \cup {ItemToken(i) : i \in Items}

Docs == SeqsUpTo(Tokens, MaxDocLen)

----------------------------------------------------------------------------
(* youtube-scraper.ts: scrapeYouTubeSearch *)

Undefined == "undefined"
UnknownTitle == "Unknown Title"
UnknownChannel == "Unknown Channel"

\* a || b on strings
OrElse(a, b) == IF a # "" THEN a ELSE b

ThumbnailTemplate(videoId) ==
    <<"https://img.youtube.com/vi/", videoId, "/mqdefault.jpg">>

\* the YouTubeVideoInfo built from a videoRenderer
VideoOfRenderer(r) ==
    [videoId |-> r.videoId,
     title |-> OrElse(r.titleRuns, OrElse(r.simpleText, UnknownTitle)),
     thumbnail |-> IF r.thumb # NoUrl THEN r.thumb ELSE ThumbnailTemplate(r.videoId),
     channelTitle |-> OrElse(r.owner, OrElse(r.byline, UnknownChannel)),
     duration |-> OrElse(r.length, Undefined)]

\* item?.videoRenderer && videoRenderer.videoId
IsVideoItem(i) == i.vr /\ i.videoId # ""

\* scriptTags.each: the state of the scan
ScanStart == [block |-> "none", section |-> "none", videos |-> <<>>, stopped |-> FALSE]

\* ScanToken with the stop test of videos.length >= maxResults taken as >
ScanTokenStopsLate(st, tok, maxResults) ==
    IF st.stopped THEN st
    ELSE IF tok.t = "script"
    THEN [st EXCEPT !.block = tok.kind, !.section = "items"]
    ELSE IF tok.t = "section"
    THEN IF st.block = "none" THEN st
         ELSE IF st.block = "ok" /\ tok.kind = "broken"
         THEN [st EXCEPT !.block = "thrown"]
         ELSE [st EXCEPT !.section = tok.kind]
    ELSE IF st.block = "ok" /\ st.section = "items" /\ IsVideoItem(tok.item)
    THEN LET pushed == Append(st.videos, VideoOfRenderer(tok.item))
         IN  [st EXCEPT !.videos = pushed, !.stopped = Len(pushed) > maxResults]
    ELSE st

\* ScanToken with `return false` ending only the script block at hand: the
\* next script block is scanned again
ScanTokenStopsBlockOnly(st, tok, maxResults) ==
    IF tok.t = "script"
    THEN [st EXCEPT !.block = tok.kind, !.section = "items", !.stopped = FALSE]
    ELSE IF st.stopped THEN st
    ELSE IF tok.t = "section"
    THEN IF st.block = "none" THEN st
         ELSE IF st.block = "ok" /\ tok.kind = "broken"
         THEN [st EXCEPT !.block = "thrown"]
         ELSE [st EXCEPT !.section = tok.kind]
    ELSE IF st.block = "ok" /\ st.section = "items" /\ IsVideoItem(tok.item)
    THEN LET pushed == Append(st.videos, VideoOfRenderer(tok.item))
         IN  [st EXCEPT !.videos = pushed, !.stopped = Len(pushed) >= maxResults]
    ELSE st

\* ScanToken without the try/catch around a block: a block that throws ends
\* the scan
ScanTokenAbortsOnThrow(st, tok, maxResults) ==
    IF st.stopped THEN st
    ELSE IF tok.t = "script"
    THEN [st EXCEPT !.block = tok.kind, !.section = "items",
                    !.stopped = (tok.kind = "badjson")]
    ELSE IF tok.t = "section"
    THEN IF st.block = "none" THEN st
         ELSE IF st.block = "ok" /\ tok.kind = "broken"
         THEN [st EXCEPT !.block = "thrown", !.stopped = TRUE]
         ELSE [st EXCEPT !.section = tok.kind]
    ELSE IF st.block = "ok" /\ st.section = "items" /\ IsVideoItem(tok.item)
    THEN LET pushed == Append(st.videos, VideoOfRenderer(tok.item))
         IN  [st EXCEPT !.videos = pushed, !.stopped = Len(pushed) >= maxResults]
    ELSE st

\* the scan after one more token; a throw inside a block is caught at the
\* end of that block ("thrown"), whose remaining sections are skipped
ScanToken(st, tok, maxResults) ==
    IF st.stopped THEN st
    ELSE IF tok.t = "script"
    THEN [st EXCEPT !.block = tok.kind, !.section = "items"]
    ELSE IF tok.t = "section"
    THEN IF st.block = "none" THEN st
         ELSE IF st.block = "ok" /\ tok.kind = "broken"
         THEN [st EXCEPT !.block = "thrown"]
         ELSE [st EXCEPT !.section = tok.kind]
    ELSE IF st.block = "ok" /\ st.section = "items" /\ IsVideoItem(tok.item)
    THEN LET pushed == Append(st.videos, VideoOfRenderer(tok.item))
         IN  [st EXCEPT !.videos = pushed, !.stopped = Len(pushed) >= maxResults]
    ELSE st

RECURSIVE Scan(_, _, _)
Scan(st, doc, maxResults) ==
    IF doc = <<>> THEN st
    ELSE Scan(ScanToken(st, Head(doc), maxResults), Tail(doc), maxResults)

\* the primary strategy: the videos collected from the script blocks
PrimaryVideos(html, maxResults) == Scan(ScanStart, html, maxResults).videos

\* the items of the document text, in order
RECURSIVE ItemsOf(_)
ItemsOf(html) ==
    IF html = <<>> THEN <<>>
    ELSE IF Head(html).t = "item" THEN <<Head(html).item>> \o ItemsOf(Tail(html))
    ELSE ItemsOf(Tail(html))

RECURSIVE MapNonEmpty(_, _)
MapNonEmpty(items, field) ==
    IF items = <<>> THEN <<>>
    ELSE IF Head(items)[field] # "" THEN <<Head(items)[field]>> \o MapNonEmpty(Tail(items), field)
    ELSE MapNonEmpty(Tail(items), field)

\* html.matchAll(/"videoId":"([^"]+)"/g)
MatchVideoIds(html) == MapNonEmpty(ItemsOf(html), "videoId")
\* html.matchAll(/"title":{"runs":\[{"text":"([^"]+)"/g)
MatchTitles(html) == MapNonEmpty(ItemsOf(html), "titleRuns")
\* html.matchAll(/"ownerText":{"runs":\[{"text":"([^"]+)"/g)
MatchChannels(html) == MapNonEmpty(ItemsOf(html), "owner")

\* FallbackCount without the cap: Math.min(videoIds.length, titles.length)
FallbackCountUncapped(videoIds, titles, maxResults) == Min(Len(videoIds), Len(titles))

FallbackCount(videoIds, titles, maxResults) ==
    Min(Min(Len(videoIds), Len(titles)), maxResults)

\* arr[i] of a string array: undefined, which is as falsy as "", past its end
At(arr, i) == IF i <= Len(arr) THEN arr[i] ELSE ""

FallbackVideo(videoIds, titles, channels, i) ==
    [videoId |-> At(videoIds, i),
     title |-> At(titles, i),
     thumbnail |-> ThumbnailTemplate(At(videoIds, i)),
     channelTitle |-> OrElse(At(channels, i), UnknownChannel),
     duration |-> Undefined]

\* the fallback strategy: the three match lists zipped by position
FallbackVideos(html, maxResults) ==
    LET videoIds == MatchVideoIds(html)
        titles == MatchTitles(html)
        channels == MatchChannels(html)
        count == FallbackCount(videoIds, titles, maxResults)
        all == [i \in 1..count |-> FallbackVideo(videoIds, titles, channels, i)]
    IN  SelectSeq(all, LAMBDA v : v.videoId # "" /\ v.title # "")

\* what axios.get gives: a thrown error, or the page
FetchError == [ok |-> FALSE, html |-> <<>>]
FetchOk(html) == [ok |-> TRUE, html |-> html]

\* ScrapeYouTubeSearch with the fallback run whenever the primary strategy
\* has collected fewer than maxResults records
ScrapeFallbackWhenShort(fetch, maxResults) ==
    IF ~fetch.ok THEN <<>>
    ELSE LET videos == PrimaryVideos(fetch.html, maxResults)
         IN  IF Len(videos) < maxResults
             THEN videos \o FallbackVideos(fetch.html, maxResults - Len(videos))
             ELSE videos

ScrapeYouTubeSearch(fetch, maxResults) ==
    IF ~fetch.ok THEN <<>>
    ELSE LET videos == PrimaryVideos(fetch.html, maxResults)
         IN  IF Len(videos) = 0 THEN FallbackVideos(fetch.html, maxResults) ELSE videos

----------------------------------------------------------------------------
(* storage.ts / database-storage.ts: the query cache *)

Null == "null"

\* the query strings handed to the storage directly
QueryChars == {"a", "A", " "}
Queries == SeqsUpTo(QueryChars, MaxQueryLen)

\* NormalizeQuery without the trim
NormalizeQueryNoTrim(query) == ToLowerCase(query)

\* query.toLowerCase().trim()
NormalizeQuery(query) == Trim(ToLowerCase(query))

\* the InsertMusicCache the search route builds from the first video
\* (createdAt, a timestamp no operation reads, is left out)
CacheDataOf(q, video) ==
    [query |-> q,
     youtubeId |-> video.videoId,
     title |-> video.title,
     thumbnail |-> video.thumbnail,
     channelTitle |-> video.channelTitle,
     duration |-> IF video.duration # Undefined /\ video.duration # ""
                  THEN video.duration ELSE Null]

\* the MusicCache stored for an InsertMusicCache
CacheRow(id, normalizedQuery, data) ==
    [id |-> id,
     query |-> normalizedQuery,
     youtubeId |-> data.youtubeId,
     title |-> data.title,
     thumbnail |-> data.thumbnail,
     channelTitle |-> data.channelTitle,
     duration |-> data.duration]

RowsFor(rows, normalizedQuery) == SelectSeq(rows, LAMBDA r : r.query = normalizedQuery)

\* Map.set: the entry of the key is replaced where it stands, a new key is added
MapSet(rows, row) ==
    IF \E i \in 1..Len(rows) : rows[i].query = row.query
    THEN [i \in 1..Len(rows) |-> IF rows[i].query = row.query THEN row ELSE rows[i]]
    ELSE Append(rows, row)

\* what a storage call gives: the store after it, the counter after it,
\* whether it threw, and the rows it returned (none, or one)
StorageResult(rows, counter, threw, result) ==
    [rows |-> rows, counter |-> counter, threw |-> threw, result |-> result]

MemGetFromCache(rows, query) ==
    LET found == RowsFor(rows, NormalizeQuery(query))
    IN  IF found = <<>> THEN <<>> ELSE <<found[1]>>

MemSaveToCache(rows, counter, insertCache) ==
    LET normalizedQuery == NormalizeQuery(insertCache.query)
        cache == CacheRow(counter, normalizedQuery, insertCache)
    IN  StorageResult(MapSet(rows, cache), counter + 1, FALSE, <<cache>>)

\* shared/schema.ts: music_cache.query carries a unique constraint
QueryIsUnique == TRUE

\* db.select().from(musicCache).where(eq(musicCache.query, normalizedQuery))
DbGetFromCache(rows, query) ==
    LET result == RowsFor(rows, NormalizeQuery(query))
    IN  IF result = <<>> THEN <<>> ELSE <<result[1]>>

\* db.insert(musicCache).values(...).returning(): a plain INSERT, which the
\* database rejects when the connection is down or the key exists already;
\* the serial of the id column advances all the same
DbSaveToCache(rows, counter, data, dbUp) ==
    LET normalizedQuery == NormalizeQuery(data.query)
        row == CacheRow(counter, normalizedQuery, data)
    IN  IF ~dbUp THEN StorageResult(rows, counter, TRUE, <<>>)
        ELSE IF QueryIsUnique /\ RowsFor(rows, normalizedQuery) # <<>>
        THEN StorageResult(rows, counter + 1, TRUE, <<>>)
        ELSE StorageResult(Append(rows, row), counter + 1, FALSE, <<row>>)

\* storage.getFromCache / storage.saveToCache of the exported `storage`
GetFromCache(kind, rows, query) ==
    IF kind = "mem" THEN MemGetFromCache(rows, query) ELSE DbGetFromCache(rows, query)

SaveToCache(kind, rows, counter, data, dbUp) ==
    IF kind = "mem" THEN MemSaveToCache(rows, counter, data)
    ELSE DbSaveToCache(rows, counter, data, dbUp)

----------------------------------------------------------------------------
(* routes: GET /api/search *)

MaxInFlight == 1      \* search requests awaiting their fetch at one time
MaxEvents == 1        \* analytics events stored in one run
MaxSearchItems == 2   \* items of a page fetched for a search request

\* the q parameters and the maxResults parameters of the search requests
SearchQueryParams ==
    {AbsentParam, OtherParam, StringParam(<<>>), StringParam(<<" ", "A">>),
     StringParam(<<"b">>)}
SearchLimitParams == {AbsentParam, StringParam(<<"1">>)}

\* IsBadQuery without the test of !q: only the type is looked at
IsBadQueryTypeOnly(q) == q.kind # "string"

\* !q || typeof q !== 'string'
IsBadQuery(q) == q.kind # "string" \/ q.chars = <<>>

\* the pages a search request may be answered with: one script block,
\* decodable or not, holding up to MaxSearchItems video items
SearchDocs ==
    {<<>>} \cup
    {<<ScriptToken(k)>> \o items :
        k \in {"ok", "badjson"},
        items \in SeqsUpTo({ItemToken(ItemFull), ItemToken(ItemPlain)}, MaxSearchItems)}

SearchFetches == {FetchError} \cup {FetchOk(d) : d \in SearchDocs}

\* a request past validation, awaiting scrapeYouTubeSearch
Pending(q, limit) == [q |-> q, limit |-> limit]
PendingTypes ==
    {Pending(q.chars, ComputeLimit(m)) :
        q \in {p \in SearchQueryParams : p.kind = "string"}, m \in SearchLimitParams}

RECURSIVE SumOver(_, _)
SumOver(f, S) ==
    IF S = {} THEN 0
    ELSE LET x == CHOOSE y \in S : TRUE IN f[x] + SumOver(f, S \ {x})

InFlight == SumOver(requests, PendingTypes)

\* the handlers suspended at `await scrapeYouTubeSearch(q, limit)`
Outstanding == InFlight + SumOver(silent, PendingTypes)

NoPending == Pending(<<>>, 0)
NoResponse ==
    [status |-> 0, message |-> "", query |-> <<>>, total |-> 0, data |-> <<>>,
     source |-> "", req |-> NoPending, fetch |-> FetchError, saveThrew |-> FALSE,
     dbUp |-> TRUE]

BadRequestResponse ==
    [NoResponse EXCEPT !.status = 400, !.message = "Query parameter 'q' is required"]

\* NotFoundResponse with the status of the outer catch
NotFoundAsServerError(r, fetch) ==
    [NoResponse EXCEPT !.status = 500, !.message = "Erro ao buscar no YouTube",
                       !.query = r.q, !.req = r, !.fetch = fetch]

NotFoundResponse(r, fetch) ==
    [NoResponse EXCEPT !.status = 404,
                       !.message = "Nenhum video encontrado para esta busca",
                       !.query = r.q, !.req = r, !.fetch = fetch]

\* videos.map(video => ({videoId, title, thumbnail, channelTitle, duration}))
ResponseData(videos) ==
    [i \in 1..Len(videos) |->
        [videoId |-> videos[i].videoId, title |-> videos[i].title,
         thumbnail |-> videos[i].thumbnail, channelTitle |-> videos[i].channelTitle,
         duration |-> videos[i].duration]]

\* SuccessResponse as it would be if the error of the cache write reached
\* the outer catch of the handler
SuccessUnlessSaveThrew(r, fetch, videos, saveThrew) ==
    IF saveThrew
    THEN [NoResponse EXCEPT !.status = 500, !.message = "Erro ao buscar no YouTube",
                            !.req = r, !.fetch = fetch, !.saveThrew = saveThrew]
    ELSE [NoResponse EXCEPT !.status = 200, !.query = r.q, !.total = Len(videos),
                            !.data = ResponseData(videos), !.source = "scraper",
                            !.req = r, !.fetch = fetch, !.saveThrew = saveThrew]

\* the response also records, for the claims, the request it answers, the
\* outcome of its fetch and whether its cache write threw
SuccessResponse(r, fetch, videos, saveThrew) ==
    [NoResponse EXCEPT !.status = 200, !.query = r.q, !.total = Len(videos),
                       !.data = ResponseData(videos), !.source = "scraper",
                       !.req = r, !.fetch = fetch, !.saveThrew = saveThrew]

ServerErrorResponse ==
    [NoResponse EXCEPT !.status = 500, !.message = "Erro ao buscar no YouTube"]

\* storage.trackEvent of the search event of a logged-in user; the database
\* implementation throws when the connection is down
SearchEvent(q) == [eventType |-> "search", userId |-> 1, metadata |-> q]

TrackEvent(kind, events, event, dbUp) ==
    IF kind = "db" /\ ~dbUp
    THEN [events |-> events, threw |-> TRUE]
    ELSE [events |-> Append(events, event), threw |-> FALSE]

\* the handler up to `await scrapeYouTubeSearch(q, limit)`: the request is
\* refused, or its search event is stored and its fetch is under way
SearchBegin(q, maxResults, user, dbUp) ==
    /\ IF IsBadQuery(q)
       THEN /\ response' = BadRequestResponse
            /\ UNCHANGED <<requests, analyticsEvents>>
       ELSE LET r == Pending(q.chars, ComputeLimit(maxResults))
                tracked == IF user
                           THEN TrackEvent(backend, analyticsEvents, SearchEvent(q.chars), dbUp)
                           ELSE [events |-> analyticsEvents, threw |-> FALSE]
            IN  /\ user => Len(analyticsEvents) < MaxEvents
                /\ analyticsEvents' = tracked.events
                /\ IF tracked.threw
                   THEN /\ response' = ServerErrorResponse
                        /\ UNCHANGED requests
                   ELSE /\ Outstanding < MaxInFlight
                        /\ requests' = [requests EXCEPT ![r] = @ + 1]
                        /\ response' = NoResponse
    /\ UNCHANGED <<call, backend, musicCache, cacheIdCounter, cacheOp, silent>>
    /\ UNCHANGED detailVars
    /\ UNCHANGED libraryVars

\* the handler from the end of the fetch to the response: the videos are
\* extracted, the first one is saved to the query cache, the list is sent
SearchFinish(r, fetch, dbUp) ==
    /\ requests[r] > 0
    /\ requests' = [requests EXCEPT ![r] = @ - 1]
    /\ LET videos == ScrapeYouTubeSearch(fetch, r.limit)
       IN  IF Len(videos) = 0
           THEN /\ response' = NotFoundResponse(r, fetch)
                /\ UNCHANGED <<musicCache, cacheIdCounter>>
           ELSE LET saved == SaveToCache(backend, musicCache, cacheIdCounter,
                                         CacheDataOf(r.q, videos[1]), dbUp)
                IN  /\ cacheIdCounter <= MaxCacheId
                    /\ musicCache' = saved.rows
                    /\ cacheIdCounter' = saved.counter
                    /\ response' = [SuccessResponse(r, fetch, videos, saved.threw)
                                        EXCEPT !.dbUp = dbUp]
    /\ UNCHANGED <<call, backend, cacheOp, analyticsEvents, silent>>
    /\ UNCHANGED detailVars
    /\ UNCHANGED libraryVars

\* the platform accepts the connection of a fetch and never answers it.
\* axios.get is given no timeout (and axios has none by default), so nothing
\* in the handler ever ends the wait
PlatformSilent(r) ==
    /\ requests[r] > 0
    /\ requests' = [requests EXCEPT ![r] = @ - 1]
    /\ silent' = [silent EXCEPT ![r] = @ + 1]
    /\ UNCHANGED <<call, backend, musicCache, cacheIdCounter, cacheOp,
                   analyticsEvents, response>>
    /\ UNCHANGED detailVars
    /\ UNCHANGED libraryVars

----------------------------------------------------------------------------
(* routes: the NodeCache of track details and GET /api/tracks/:id *)

StdTTL == 900        \* new NodeCache({ stdTTL: 900 }), seconds
MaxTime == 1802      \* the clock stops here
MaxLookups == 2      \* Deezer lookups in flight at one time

TrackIds == {"1", "2"}
TrackKeys == {<<"track:", id>> : id \in TrackIds}
CacheKey(id) == <<"track:", id>>

\* the time that passes between two events
TimeSteps == {StdTTL - 1, StdTTL, StdTTL + 1}

\* NodeCache._check: an entry is expired once its time t lies before now
Expired(entry, time) == entry.t # 0 /\ entry.t < time

\* NodeCache.get: the value of a live entry; an expired entry is deleted
NodeCacheGet(cache, key, time) ==
    IF cache[key] = <<>> THEN [cache |-> cache, value |-> <<>>]
    ELSE IF Expired(cache[key][1], time)
    THEN [cache |-> [cache EXCEPT ![key] = <<>>], value |-> <<>>]
    ELSE [cache |-> cache, value |-> <<cache[key][1].v>>]

\* NodeCacheSet with the standard ttl left out: the entry never expires
NodeCacheSetNoTtl(cache, key, value, time) ==
    [cache EXCEPT ![key] = <<[v |-> value, t |-> 0]>>]

\* NodeCache.set without a ttl: the entry lives stdTTL seconds from now
NodeCacheSet(cache, key, value, time) ==
    [cache EXCEPT ![key] = <<[v |-> value, t |-> time + StdTTL]>>]

\* NodeCache._checkData, on its timer: every expired entry is deleted
NodeCacheCheckData(cache, time) ==
    [k \in DOMAIN cache |->
        IF cache[k] # <<>> /\ Expired(cache[k][1], time) THEN <<>> ELSE cache[k]]

\* what axios.get of api.deezer.com/track/:id gives: a track (rev tells two
\* answers for one id apart), a 200 answer whose body is Deezer's error
\* object (no artist: building trackData throws a TypeError), an answer with
\* an error status (an AxiosError with a response), or no answer at all
DeezerTrack(id, rev) ==
    [ok |-> TRUE, http |-> 200, id |-> id, title |-> <<"title", id, rev>>,
     artist |-> <<"artist">>, album |-> <<"album">>]
DeezerErrorBody(id) ==
    [ok |-> TRUE, http |-> 200, id |-> id, title |-> <<>>, artist |-> <<>>, album |-> <<>>]
DeezerHttpError(id) ==
    [ok |-> FALSE, http |-> 404, id |-> id, title |-> <<>>, artist |-> <<>>, album |-> <<>>]
DeezerFailure(id) ==
    [ok |-> FALSE, http |-> 0, id |-> id, title |-> <<>>, artist |-> <<>>, album |-> <<>>]
DeezerOutcomes(id) ==
    {DeezerFailure(id), DeezerHttpError(id), DeezerErrorBody(id)}
        \cup {DeezerTrack(id, rev) : rev \in {"r1", "r2"}}

\* the trackData built from response.data
TrackData(data) ==
    [id |-> data.id, title |-> data.title, artist |-> data.artist, album |-> data.album]

NoTrackResponse == [status |-> 0, id |-> "", body |-> <<>>, cached |-> FALSE, at |-> 0]

TrackResponse(status, id, body, cached, at) ==
    [status |-> status, id |-> id, body |-> body, cached |-> cached, at |-> at]

\* the status of the catch block: that of the upstream answer when axios
\* threw with one, 500 otherwise
TrackErrorStatus(upstream) ==
    IF ~upstream.ok /\ upstream.http # 0 THEN upstream.http ELSE 500

LookupsInFlight == SumOver(lookups, TrackIds)

\* TrackBegin without the look into the cache: every request goes upstream
TrackBeginSkipsCache(id) ==
    /\ LookupsInFlight < MaxLookups
    /\ lookups' = [lookups EXCEPT ![id] = @ + 1]
    /\ UNCHANGED <<searchCache, trackResp, insertedAt, now>>
    /\ UNCHANGED <<backend, searchVars, libraryVars>>

\* GET /api/tracks/:id up to `await axios.get(...)`: the entry of the cache
\* is sent if there is a live one, else the lookup is under way
TrackBegin(id) ==
    LET got == NodeCacheGet(searchCache, CacheKey(id), now)
    IN  /\ searchCache' = got.cache
        /\ IF got.value # <<>>
           THEN /\ trackResp' = TrackResponse(200, id, got.value, TRUE, now)
                /\ UNCHANGED lookups
           ELSE /\ LookupsInFlight < MaxLookups
                /\ lookups' = [lookups EXCEPT ![id] = @ + 1]
                /\ UNCHANGED trackResp
        /\ UNCHANGED <<insertedAt, now>>
        /\ UNCHANGED <<backend, searchVars, libraryVars>>

\* GET /api/tracks/:id from the end of the lookup: the track is stored and
\* sent, or the error is answered and nothing is stored
TrackFinish(id, upstream) ==
    /\ lookups[id] > 0
    /\ lookups' = [lookups EXCEPT ![id] = @ - 1]
    /\ IF ~upstream.ok \/ upstream.artist = <<>>
       THEN /\ trackResp' = TrackResponse(TrackErrorStatus(upstream), id, <<>>, FALSE, now)
            /\ UNCHANGED <<searchCache, insertedAt>>
       ELSE /\ searchCache' = NodeCacheSet(searchCache, CacheKey(id), TrackData(upstream), now)
            /\ trackResp' = TrackResponse(200, id, <<TrackData(upstream)>>, FALSE, now)
            /\ insertedAt' = [insertedAt EXCEPT ![CacheKey(id)] = now]
    /\ UNCHANGED now
    /\ UNCHANGED <<backend, searchVars, libraryVars>>

\* the check timer of the NodeCache fires
CheckData ==
    /\ searchCache' = NodeCacheCheckData(searchCache, now)
    /\ searchCache' # searchCache
    /\ UNCHANGED <<call, backend, musicCache, cacheIdCounter, cacheOp,
                   analyticsEvents, requests, silent, response, now, trackResp, insertedAt,
                   lookups>>
    /\ UNCHANGED libraryVars

\* time passes
Tick(d) ==
    /\ now + d <= MaxTime
    /\ now' = now + d
    /\ UNCHANGED <<call, backend, musicCache, cacheIdCounter, cacheOp,
                   analyticsEvents, requests, silent, response, searchCache, trackResp, insertedAt,
                   lookups>>
    /\ UNCHANGED libraryVars

----------------------------------------------------------------------------
(* auth: POST /api/register and PATCH /api/user/profile; the user methods *)
(* of the two storages                                                     *)

MaxUserId == 3         \* the ids given to users in one run
MaxRegistering == 2    \* register requests hashing their password at one time
MaxRenaming == 1       \* profile updates between their check and their update

\* shared/schema.ts: whether users.username is unique and whether
\* tracks.playlist_id references playlists.id
Schemas == [usernameUnique : BOOLEAN, tracksFk : BOOLEAN]
DeclaredSchema == [usernameUnique |-> TRUE, tracksFk |-> TRUE]

Admin == <<"a", "d", "m", "i", "n">>
Ann == <<"a", "n", "n">>
Al == <<"a", "l">>

\* the usernames of the request bodies; <<>> is a missing username
BodyNames == {<<>>, Al, Ann, Admin}
\* the lengths of the passwords of the request bodies; 0 is a missing one
PasswordLengths == {0, 5, 6}

User(id, username) == [id |-> id, username |-> username]

\* getUserByUsername: the first user of that name, if any
GetUserByUsername(rows, username) ==
    LET hits == {i \in 1..Len(rows) : rows[i].username = username}
    IN  IF hits = {} THEN <<>>
        ELSE <<rows[CHOOSE i \in hits : \A j \in hits : i <= j]>>

\* getUser
GetUser(rows, id) ==
    LET hits == {i \in 1..Len(rows) : rows[i].id = id}
    IN  IF hits = {} THEN <<>> ELSE <<rows[CHOOSE i \in hits : TRUE]>>

UserIds(rows) == {rows[i].id : i \in 1..Len(rows)}

\* MemStorage.createUser: no look at the names stored
MemCreateUser(rows, counter, username) ==
    [rows |-> Append(rows, User(counter, username)), counter |-> counter + 1,
     threw |-> FALSE]

\* DatabaseStorage.createUser: a plain insert, which a unique index on
\* username rejects; the serial advances either way
DbCreateUser(rows, counter, username) ==
    IF schema.usernameUnique /\ GetUserByUsername(rows, username) # <<>>
    THEN [rows |-> rows, counter |-> counter + 1, threw |-> TRUE]
    ELSE [rows |-> Append(rows, User(counter, username)), counter |-> counter + 1,
          threw |-> FALSE]

\* users.set(id, {...user, username}) / update users set ... where id
SetUsername(rows, id, username) ==
    [i \in 1..Len(rows) |->
        IF rows[i].id = id /\ username # <<>> THEN User(id, username) ELSE rows[i]]

\* whether the update to `username` passes the check of updateUser
RenameAllowed(rows, id, username) ==
    \/ username = <<>>
    \/ username = GetUser(rows, id)[1].username
    \/ GetUserByUsername(rows, username) = <<>>

SumRegistrations == SumOver(registrations, BodyNames)

NoAccountResponse == [op |-> "none", status |-> 0, username |-> <<>>]
AccountResponse(op, status, username) ==
    [op |-> op, status |-> status, username |-> username]

\* POST /api/register up to `await hashPassword(password)`: the body is
\* validated and the name looked up
RegisterBegin(username, passwordLength) ==
    /\ IF username = <<>> \/ passwordLength = 0 \/ Len(username) < 3 \/ passwordLength < 6
       THEN /\ accountResp' = AccountResponse("register", 400, username)
            /\ UNCHANGED registrations
       ELSE IF GetUserByUsername(users, username) # <<>>
       THEN /\ accountResp' = AccountResponse("register", 400, username)
            /\ UNCHANGED registrations
       ELSE /\ SumRegistrations < MaxRegistering
            /\ registrations' = [registrations EXCEPT ![username] = @ + 1]
            /\ accountResp' = NoAccountResponse
    /\ UNCHANGED <<users, userIdCounter, renames>>
    /\ UNCHANGED <<backend, schema, searchVars, detailVars, playlistVars>>

\* POST /api/register from the end of hashPassword: the user is created
RegisterFinish(username) ==
    /\ registrations[username] > 0
    /\ userIdCounter <= MaxUserId
    /\ registrations' = [registrations EXCEPT ![username] = @ - 1]
    /\ LET made == IF backend = "mem"
                   THEN MemCreateUser(users, userIdCounter, username)
                   ELSE DbCreateUser(users, userIdCounter, username)
       IN  /\ users' = made.rows
           /\ userIdCounter' = made.counter
           /\ accountResp' = AccountResponse("register", IF made.threw THEN 500 ELSE 201,
                                             username)
    /\ UNCHANGED renames
    /\ UNCHANGED <<backend, schema, searchVars, detailVars, playlistVars>>

\* PATCH /api/user/profile on MemStorage: updateUser awaits nothing that
\* lets another request in, so its check and its set are one step
UpdateProfileMem(id, username) ==
    /\ backend = "mem"
    /\ id \in UserIds(users)
    /\ IF username # <<>> /\ Len(username) < 3
       THEN /\ accountResp' = AccountResponse("profile", 400, username)
            /\ UNCHANGED users
       ELSE IF ~RenameAllowed(users, id, username)
       THEN /\ accountResp' = AccountResponse("profile", 400, username)
            /\ UNCHANGED users
       ELSE /\ users' = SetUsername(users, id, username)
            /\ accountResp' = AccountResponse("profile", 200, username)
    /\ UNCHANGED <<userIdCounter, registrations, renames>>
    /\ UNCHANGED <<backend, schema, searchVars, detailVars, playlistVars>>

\* PATCH /api/user/profile on DatabaseStorage, up to the update statement:
\* the body is validated, getUser and getUserByUsername are awaited
UpdateProfileCheck(id, username) ==
    /\ backend = "db"
    /\ id \in UserIds(users)
    /\ IF username # <<>> /\ Len(username) < 3
       THEN /\ accountResp' = AccountResponse("profile", 400, username)
            /\ UNCHANGED renames
       ELSE IF ~RenameAllowed(users, id, username)
       THEN /\ accountResp' = AccountResponse("profile", 400, username)
            /\ UNCHANGED renames
       ELSE /\ Cardinality(renames) < MaxRenaming
            /\ renames' = renames \cup {User(id, username)}
            /\ accountResp' = NoAccountResponse
    /\ UNCHANGED <<users, userIdCounter, registrations>>
    /\ UNCHANGED <<backend, schema, searchVars, detailVars, playlistVars>>

\* the update statement of DatabaseStorage.updateUser, which a unique index
\* on username rejects, and the response
UpdateProfileWrite(id, username) ==
    /\ User(id, username) \in renames
    /\ renames' = renames \ {User(id, username)}
    /\ LET other == {i \in 1..Len(users) :
                        users[i].username = username /\ users[i].id # id}
       IN  IF schema.usernameUnique /\ other # {}
           THEN /\ accountResp' = AccountResponse("profile", 500, username)
                /\ UNCHANGED users
           ELSE /\ users' = SetUsername(users, id, username)
                /\ accountResp' = AccountResponse("profile", 200, username)
    /\ UNCHANGED <<userIdCounter, registrations>>
    /\ UNCHANGED <<backend, schema, searchVars, detailVars, playlistVars>>

----------------------------------------------------------------------------
(* storage: deletePlaylist and addTrackToPlaylist of the two storages *)

MaxTrackId == 3        \* the ids given to tracks in one run

\* the playlists the storage starts with: the three default playlists
DefaultPlaylists == {1, 2, 3}
\* the playlists that calls are made for
CallPlaylistIds == {1, 2}

Track(id, playlistId) == [id |-> id, playlistId |-> playlistId]

\* the tracks that are not of playlist id, in order
TracksNotOf(rows, id) == SelectSeq(rows, LAMBDA t : t.playlistId # id)
TracksOf(rows, id) == SelectSeq(rows, LAMBDA t : t.playlistId = id)

NoPlaylistOp == [op |-> "none", id |-> 0, outcome |-> ""]
PlaylistOp(op, id, outcome) == [op |-> op, id |-> id, outcome |-> outcome]

\* MemStorage.addTrackToPlaylist: no look at the playlists stored
AddTrackMem(playlistId) ==
    /\ backend = "mem"
    /\ trackIdCounter <= MaxTrackId
    /\ tracks' = Append(tracks, Track(trackIdCounter, playlistId))
    /\ trackIdCounter' = trackIdCounter + 1
    /\ playlistOp' = PlaylistOp("add", playlistId, "resolved")
    /\ UNCHANGED <<playlists, deleting>>
    /\ UNCHANGED <<backend, schema, searchVars, detailVars, accountVars>>

\* DatabaseStorage.addTrackToPlaylist: a plain insert, which a foreign key to
\* playlists rejects when the playlist is not there
AddTrackDb(playlistId) ==
    /\ backend = "db"
    /\ trackIdCounter <= MaxTrackId
    /\ trackIdCounter' = trackIdCounter + 1
    /\ IF schema.tracksFk /\ playlistId \notin playlists
       THEN /\ playlistOp' = PlaylistOp("add", playlistId, "rejected")
            /\ UNCHANGED tracks
       ELSE /\ tracks' = Append(tracks, Track(trackIdCounter, playlistId))
            /\ playlistOp' = PlaylistOp("add", playlistId, "resolved")
    /\ UNCHANGED <<playlists, deleting>>
    /\ UNCHANGED <<backend, schema, searchVars, detailVars, accountVars>>

\* MemStorage.deletePlaylist: the body awaits nothing, it is one step
DeletePlaylistMem(id) ==
    /\ backend = "mem"
    /\ playlists' = playlists \ {id}
    /\ tracks' = TracksNotOf(tracks, id)
    /\ playlistOp' = PlaylistOp("delete", id, "resolved")
    /\ UNCHANGED <<trackIdCounter, deleting>>
    /\ UNCHANGED <<backend, schema, searchVars, detailVars, accountVars>>

\* DatabaseStorage.deletePlaylist, first statement: delete from tracks
DeletePlaylistTracks(id) ==
    /\ backend = "db"
    /\ id \notin deleting
    /\ tracks' = TracksNotOf(tracks, id)
    /\ deleting' = deleting \cup {id}
    /\ UNCHANGED <<playlists, trackIdCounter, playlistOp>>
    /\ UNCHANGED <<backend, schema, searchVars, detailVars, accountVars>>

\* DatabaseStorage.deletePlaylist, second statement: delete from playlists,
\* which a foreign key rejects while a track of the playlist is stored
DeletePlaylistRow(id) ==
    /\ id \in deleting
    /\ deleting' = deleting \ {id}
    /\ IF schema.tracksFk /\ TracksOf(tracks, id) # <<>>
       THEN /\ playlistOp' = PlaylistOp("delete", id, "rejected")
            /\ UNCHANGED playlists
       ELSE /\ playlists' = playlists \ {id}
            /\ playlistOp' = PlaylistOp("delete", id, "resolved")
    /\ UNCHANGED <<tracks, trackIdCounter>>
    /\ UNCHANGED <<backend, schema, searchVars, detailVars, accountVars>>

\* the state of the users, playlists and tracks once the storage is built:
\* the admin user and the three default playlists
InitLibrary ==
    /\ users = <<User(1, Admin)>>
    /\ userIdCounter = 2
    /\ registrations = [n \in BodyNames |-> 0]
    /\ renames = {}
    /\ accountResp = NoAccountResponse
    /\ playlists = DefaultPlaylists
    /\ tracks = <<>>
    /\ trackIdCounter = 1
    /\ deleting = {}
    /\ playlistOp = NoPlaylistOp

----------------------------------------------------------------------------
(* Direct calls of the storage's query cache methods *)

\* the videos whose fields a caller saves
CacheVideos == {VideoOfRenderer(ItemFull), VideoOfRenderer(ItemPlain)}

NoCacheOp == [op |-> "none", query |-> <<>>, data |-> <<>>, threw |-> FALSE, result |-> <<>>]

CallSaveToCache(q, video, dbUp) ==
    LET data == CacheDataOf(q, video)
        saved == SaveToCache(backend, musicCache, cacheIdCounter, data, dbUp)
    IN  /\ cacheIdCounter <= MaxCacheId
        /\ musicCache' = saved.rows
        /\ cacheIdCounter' = saved.counter
        /\ cacheOp' = [op |-> "save", query |-> q, data |-> <<data>>,
                       threw |-> saved.threw, result |-> saved.result]
        /\ UNCHANGED <<call, backend, analyticsEvents, requests, silent, response>>
        /\ UNCHANGED detailVars
        /\ UNCHANGED libraryVars

CallGetFromCache(q) ==
    /\ cacheOp' = [op |-> "get", query |-> q, data |-> <<>>, threw |-> FALSE,
                   result |-> GetFromCache(backend, musicCache, q)]
    /\ UNCHANGED <<call, backend, musicCache, cacheIdCounter, analyticsEvents,
                   requests, silent, response>>
    /\ UNCHANGED detailVars
    /\ UNCHANGED libraryVars

----------------------------------------------------------------------------
(* Applications of the pure functions *)

ParamChars == {"0", "3", "5", "7", "-", "x", " "}
LimitParams ==
    {AbsentParam, OtherParam} \cup {StringParam(s) : s \in SeqsUpTo(ParamChars, MaxParamLen)}

\* the maxResults the scraper is called with
ExtractLimits == {1, 2, DefaultLimit}
ExtractFetches == {FetchError} \cup {FetchOk(d) : d \in Docs}

NoCall == [fn |-> "none", done |-> TRUE]

ApplyLimit ==
    /\ call.fn = "limit" /\ ~call.done
    /\ call' = [call EXCEPT !.done = TRUE, !.result = ComputeLimit(call.arg)]
    /\ UNCHANGED <<backend, musicCache, cacheIdCounter, cacheOp, analyticsEvents,
                   requests, silent, response>>
    /\ UNCHANGED detailVars
    /\ UNCHANGED libraryVars

ApplyScrape ==
    /\ call.fn = "scrape" /\ ~call.done
    /\ call' = [call EXCEPT !.done = TRUE,
                            !.result = ScrapeYouTubeSearch(call.fetch, call.maxResults)]
    /\ UNCHANGED <<backend, musicCache, cacheIdCounter, cacheOp, analyticsEvents,
                   requests, silent, response>>
    /\ UNCHANGED detailVars
    /\ UNCHANGED libraryVars

----------------------------------------------------------------------------
(* Specifications *)

\* the state after the modules are loaded and `storage` is constructed
InitServer ==
    /\ call = NoCall
    /\ backend \in {"mem", "db"}
    /\ musicCache = <<>>
    /\ cacheIdCounter = 1
    /\ cacheOp = NoCacheOp
    /\ analyticsEvents = <<>>
    /\ requests = [r \in PendingTypes |-> 0]
    /\ silent = [r \in PendingTypes |-> 0]
    /\ response = NoResponse
    /\ searchCache = [k \in TrackKeys |-> <<>>]
    /\ now = 0
    /\ trackResp = NoTrackResponse
    /\ insertedAt = [k \in TrackKeys |-> -1]
    /\ lookups = [id \in TrackIds |-> 0]
    /\ schema = DeclaredSchema
    /\ InitLibrary

\* the database connection is up or down at a call; MemStorage has none
DbStates == IF backend = "db" THEN BOOLEAN ELSE {TRUE}

\* the search route, requested by visitors who are not logged in
Init == InitServer

Next ==
    \/ \E q \in SearchQueryParams, m \in SearchLimitParams :
          SearchBegin(q, m, FALSE, TRUE)
    \/ \E r \in PendingTypes, fetch \in SearchFetches, dbUp \in DbStates :
          SearchFinish(r, fetch, dbUp)

Spec == Init /\ [][Next]_vars

\* the search route, requested by visitors and by logged-in users, whose
\* search events are recorded; the fetch fails, or gives a page without
\* videos, with one video, or with a block that cannot be decoded
SessionFetches ==
    {FetchError, FetchOk(<<>>), FetchOk(<<ScriptToken("ok"), ItemToken(ItemFull)>>),
     FetchOk(<<ScriptToken("badjson"), ItemToken(ItemFull)>>)}

NextSession ==
    \/ \E q \in SearchQueryParams, m \in SearchLimitParams, user \in BOOLEAN,
          dbUp \in DbStates :
          SearchBegin(q, m, user, dbUp)
    \/ \E r \in PendingTypes, fetch \in SessionFetches, dbUp \in DbStates :
          SearchFinish(r, fetch, dbUp)

SpecSession == Init /\ [][NextSession]_vars

\* the search route in front of a platform that may never answer. Fairness:
\* a fetch that is answered resumes its handler (the event loop runs every
\* continuation that is ready); nothing is assumed of a silent platform
NextLive ==
    \/ \E q \in SearchQueryParams, m \in SearchLimitParams :
          SearchBegin(q, m, FALSE, TRUE)
    \/ \E r \in PendingTypes, fetch \in SearchFetches, dbUp \in DbStates :
          SearchFinish(r, fetch, dbUp)
    \/ \E r \in PendingTypes : PlatformSilent(r)

SpecLive ==
    /\ Init
    /\ [][NextLive]_vars
    /\ WF_vars(\E r \in PendingTypes, fetch \in SearchFetches, dbUp \in DbStates :
                  SearchFinish(r, fetch, dbUp))

\* the query cache methods of the storage, called directly while the
\* database is reachable
NextCache ==
    \/ \E q \in Queries, video \in CacheVideos : CallSaveToCache(q, video, TRUE)
    \/ \E q \in Queries : CallGetFromCache(q)

SpecCache == InitServer /\ [][NextCache]_vars

\* the limit computation, applied to every maxResults parameter
InitLimit ==
    /\ call \in {[fn |-> "limit", done |-> FALSE, arg |-> p, result |-> 0] : p \in LimitParams}
    /\ backend = "mem"
    /\ musicCache = <<>>
    /\ cacheIdCounter = 1
    /\ cacheOp = NoCacheOp
    /\ analyticsEvents = <<>>
    /\ requests = [r \in PendingTypes |-> 0]
    /\ silent = [r \in PendingTypes |-> 0]
    /\ response = NoResponse
    /\ searchCache = [k \in TrackKeys |-> <<>>]
    /\ now = 0
    /\ trackResp = NoTrackResponse
    /\ insertedAt = [k \in TrackKeys |-> -1]
    /\ lookups = [id \in TrackIds |-> 0]
    /\ schema = DeclaredSchema
    /\ InitLibrary

SpecLimit == InitLimit /\ [][ApplyLimit]_vars

\* the scraper, applied to every document
InitExtract ==
    /\ call \in {[fn |-> "scrape", done |-> FALSE, fetch |-> f, maxResults |-> m, result |-> <<>>] :
                    f \in ExtractFetches, m \in ExtractLimits}
    /\ backend = "mem"
    /\ musicCache = <<>>
    /\ cacheIdCounter = 1
    /\ cacheOp = NoCacheOp
    /\ analyticsEvents = <<>>
    /\ requests = [r \in PendingTypes |-> 0]
    /\ silent = [r \in PendingTypes |-> 0]
    /\ response = NoResponse
    /\ searchCache = [k \in TrackKeys |-> <<>>]
    /\ now = 0
    /\ trackResp = NoTrackResponse
    /\ insertedAt = [k \in TrackKeys |-> -1]
    /\ lookups = [id \in TrackIds |-> 0]
    /\ schema = DeclaredSchema
    /\ InitLibrary

SpecExtract == InitExtract /\ [][ApplyScrape]_vars

\* the track-detail route and its cache
InitDetail ==
    /\ InitServer
    /\ backend = "mem"

NextDetail ==
    \/ \E id \in TrackIds : TrackBegin(id)
    \/ \E id \in TrackIds : \E upstream \in DeezerOutcomes(id) : TrackFinish(id, upstream)
    \/ CheckData
    \/ \E d \in TimeSteps : Tick(d)

SpecDetail == InitDetail /\ [][NextDetail]_vars

\* a server with either storage; the tables of the database are declared
\* in a file this model has no sight of, so either declaration may be there
InitStores ==
    /\ call = NoCall
    /\ backend \in {"mem", "db"}
    /\ musicCache = <<>>
    /\ cacheIdCounter = 1
    /\ cacheOp = NoCacheOp
    /\ analyticsEvents = <<>>
    /\ requests = [r \in PendingTypes |-> 0]
    /\ silent = [r \in PendingTypes |-> 0]
    /\ response = NoResponse
    /\ searchCache = [k \in TrackKeys |-> <<>>]
    /\ now = 0
    /\ trackResp = NoTrackResponse
    /\ insertedAt = [k \in TrackKeys |-> -1]
    /\ lookups = [id \in TrackIds |-> 0]
    /\ schema \in IF backend = "db" THEN Schemas ELSE {DeclaredSchema}
    /\ InitLibrary

\* registrations and profile updates, interleaved at their awaits
NextAccounts ==
    \/ \E username \in BodyNames, passwordLength \in PasswordLengths :
          RegisterBegin(username, passwordLength)
    \/ \E username \in BodyNames : RegisterFinish(username)
    \/ \E id \in 1..MaxUserId, username \in BodyNames : UpdateProfileMem(id, username)
    \/ \E id \in 1..MaxUserId, username \in BodyNames : UpdateProfileCheck(id, username)
    \/ \E id \in 1..MaxUserId, username \in BodyNames : UpdateProfileWrite(id, username)

SpecAccounts == InitStores /\ [][NextAccounts]_vars

\* deletePlaylist and addTrackToPlaylist calls, interleaved at their awaits
NextPlaylists ==
    \/ \E id \in CallPlaylistIds : AddTrackMem(id)
    \/ \E id \in CallPlaylistIds : AddTrackDb(id)
    \/ \E id \in CallPlaylistIds : DeletePlaylistMem(id)
    \/ \E id \in CallPlaylistIds : DeletePlaylistTracks(id)
    \/ \E id \in CallPlaylistIds : DeletePlaylistRow(id)

SpecPlaylists == InitStores /\ [][NextPlaylists]_vars

----------------------------------------------------------------------------
(* Claims: the limit *)

\* a decimal numeral: an optional minus sign and one digit or more
IsNumeral(s) ==
    LET body == IF s # <<>> /\ s[1] = "-" THEN Tail(s) ELSE s
    IN  body # <<>> /\ \A i \in 1..Len(body) : body[i] \in {"0", "3", "5", "7"}

NumeralDigit(c) == CASE c = "0" -> 0 [] c = "3" -> 3 [] c = "5" -> 5 [] c = "7" -> 7

RECURSIVE NumeralMagnitude(_)
NumeralMagnitude(body) ==
    IF body = <<>> THEN 0
    ELSE 10 * NumeralMagnitude(SubSeq(body, 1, Len(body) - 1)) + NumeralDigit(body[Len(body)])

NumeralValue(s) ==
    IF s[1] = "-" THEN 0 - NumeralMagnitude(Tail(s)) ELSE NumeralMagnitude(s)

\* a string in which no number can be read: it holds no digit at all
IsNonNumeric(s) == \A i \in 1..Len(s) : s[i] \notin {"0", "3", "5", "7"}

----------------------------------------------------------------------------
(* Claims: the extractor *)

\* the script block and the section a position of the document lies in
BlockAt(doc, i) ==
    LET starts == {j \in 1..i : doc[j].t = "script"}
    IN  IF starts = {} THEN 0 ELSE CHOOSE j \in starts : \A k \in starts : k <= j

InItemSection(doc, i) ==
    LET b == BlockAt(doc, i)
        sections == {j \in b + 1..i : doc[j].t = "section"}
    IN  /\ b > 0
        /\ doc[b].kind = "ok"
        /\ \A j \in sections : doc[j].kind # "broken"
        /\ sections # {} =>
              doc[CHOOSE j \in sections : \A k \in sections : k <= j].kind = "items"

\* the positions of the video items the structured data holds: items with a
\* videoRenderer and a video id, inside an item section of a decodable block
ExtractablePositions(doc) ==
    {i \in 1..Len(doc) :
        /\ doc[i].t = "item"
        /\ doc[i].item.vr /\ doc[i].item.videoId # ""
        /\ InItemSection(doc, i)}

RECURSIVE InOrder(_, _)
InOrder(doc, S) ==
    IF S = {} THEN <<>>
    ELSE LET i == CHOOSE j \in S : \A k \in S : j <= k
         IN  <<doc[i].item>> \o InOrder(doc, S \ {i})

ExtractableItems(doc) == InOrder(doc, ExtractablePositions(doc))

ScrapeDone == call.fn = "scrape" /\ call.done /\ call.fetch.ok

\* C8: when the structured data of the document holds N >= maxResults video
\* items, the scraper returns exactly maxResults records, and they are the
\* first maxResults video items in document order
C8_PrimaryReturnsFirstMax ==
    ScrapeDone =>
        LET items == ExtractableItems(call.fetch.html)
            m == call.maxResults
        IN  Len(items) >= m =>
               /\ Len(call.result) = m
               /\ \A i \in 1..m :
                     /\ call.result[i].videoId = items[i].videoId
                     /\ call.result[i] = VideoOfRenderer(items[i])

\* a document of three video items has been scraped with maxResults = 2
C8_Witness ==
    /\ ScrapeDone
    /\ Len(ExtractableItems(call.fetch.html)) = 3
    /\ call.maxResults = 2
    /\ Len(call.result) = 2

\* C9: when the primary strategy yields no record, the scraper returns
\* min(len(ids), len(titles), maxResults) records, record i made of ids[i],
\* titles[i], channels[i] if there is one and "Unknown Channel" otherwise,
\* and the thumbnail templated from ids[i]
C9_FallbackZips ==
    (ScrapeDone /\ ExtractableItems(call.fetch.html) = <<>>) =>
        LET ids == MatchVideoIds(call.fetch.html)
            titles == MatchTitles(call.fetch.html)
            channels == MatchChannels(call.fetch.html)
            n == Min(Min(Len(ids), Len(titles)), call.maxResults)
        IN  /\ Len(call.result) = n
            /\ \A i \in 1..n :
                  /\ call.result[i].videoId = ids[i]
                  /\ call.result[i].title = titles[i]
                  /\ call.result[i].channelTitle =
                        (IF i <= Len(channels) THEN channels[i] ELSE "Unknown Channel")
                  /\ call.result[i].thumbnail =
                        <<"https://img.youtube.com/vi/", ids[i], "/mqdefault.jpg">>

\* the fallback has returned two records, the second without a channel match
C9_Witness ==
    /\ ScrapeDone
    /\ ExtractableItems(call.fetch.html) = <<>>
    /\ Len(call.result) = 2
    /\ Len(MatchChannels(call.fetch.html)) = 1
    /\ Len(MatchTitles(call.fetch.html)) > Len(MatchVideoIds(call.fetch.html))
    /\ call.result[2].channelTitle = "Unknown Channel"

----------------------------------------------------------------------------
(* Claims: the query cache *)

\* a query lowercased and trimmed of leading and trailing white space
CanonChar(c) == CASE c = "A" -> "a" [] c = "B" -> "b" [] OTHER -> c

Canon(q) ==
    LET inked == {i \in 1..Len(q) : q[i] # " "}
    IN  IF inked = {} THEN <<>>
        ELSE LET first == CHOOSE i \in inked : \A j \in inked : i <= j
                 last == CHOOSE i \in inked : \A j \in inked : j <= i
             IN  [i \in 1..(last - first + 1) |-> CanonChar(q[first + i - 1])]

SameFields(row, data) ==
    /\ row.youtubeId = data.youtubeId
    /\ row.title = data.title
    /\ row.thumbnail = data.thumbnail
    /\ row.channelTitle = data.channelTitle
    /\ row.duration = data.duration

\* C2: after any sequence of saveToCache calls, on either storage, the store
\* holds at most one entry per normalized query, and getFromCache of the
\* query just written returns the record of that most recent write
C2_LastWriteWins ==
    /\ \A i, j \in 1..Len(musicCache) :
          musicCache[i].query = musicCache[j].query => i = j
    /\ cacheOp.op = "save" =>
          LET got == GetFromCache(backend, musicCache, cacheOp.query)
          IN  got # <<>> /\ SameFields(got[1], cacheOp.data[1])

\* C3: after saveToCache with query q1, getFromCache of any q2 with the same
\* lowercased, trimmed form returns the entry written for q1, and the query
\* field of that entry is the normalized form
C3_NormalizedLookup ==
    (cacheOp.op = "save" /\ ~cacheOp.threw) =>
        \A q2 \in Queries :
            Canon(q2) = Canon(cacheOp.query) =>
                LET got == GetFromCache(backend, musicCache, q2)
                IN  /\ got # <<>>
                    /\ got = cacheOp.result
                    /\ got[1].query = Canon(cacheOp.query)
                    /\ SameFields(got[1], cacheOp.data[1])

\* an entry written with " A" on the database storage is what "a" reads
C3_Witness ==
    /\ backend = "db"
    /\ cacheOp.op = "save" /\ ~cacheOp.threw
    /\ cacheOp.query = <<" ", "A">>
    /\ GetFromCache(backend, musicCache, <<"a">>) = cacheOp.result
    /\ cacheOp.result # <<>>
    /\ Len(musicCache) = 2

----------------------------------------------------------------------------
(* Claims: the search route *)

\* the step is the end of a search request
SearchEnds == InFlight' < InFlight

\* the response answers a search request whose fetch has ended
Answered == response.status # 0 /\ response.req # NoPending

\* C1: when the fetch of a search fails, the caller receives a server-error
\* response, distinct from the not-found response of a search without
\* matches, and the query cache is left unchanged
C1_FetchErrorIsServerError ==
    [][(SearchEnds /\ ~response'.fetch.ok) =>
          /\ response'.status = 500
          /\ response'.status # 404
          /\ musicCache' = musicCache]_vars

\* the first n elements of a sequence
Prefix(seq, n) == SubSeq(seq, 1, n)

VideosOfItems(items) == [i \in 1..Len(items) |-> VideoOfRenderer(items[i])]

\* C5: when the primary extraction finds N >= 1 items and the limit is L, the
\* response has total = min(N, L), the first min(N, L) records in document
\* order and source "scraper", and afterwards the query cache holds exactly
\* one entry for the normalized query, with the fields of record #1 (taken
\* here with the store reachable during the request)
C5_SearchCachesFirstRecord ==
    (Answered /\ response.fetch.ok /\ response.dbUp
        /\ ExtractableItems(response.fetch.html) # <<>>) =>
        LET items == ExtractableItems(response.fetch.html)
            n == Min(Len(items), response.req.limit)
            rows == RowsFor(musicCache, Canon(response.req.q))
        IN  /\ response.status = 200
            /\ response.total = n
            /\ response.data = Prefix(VideosOfItems(items), n)
            /\ response.source = "scraper"
            /\ Len(rows) = 1
            /\ rows[1].youtubeId = response.data[1].videoId
            /\ rows[1].title = response.data[1].title
            /\ rows[1].thumbnail = response.data[1].thumbnail
            /\ rows[1].channelTitle = response.data[1].channelTitle
            /\ rows[1].duration = (IF response.data[1].duration = Undefined THEN Null
                                   ELSE response.data[1].duration)

\* C6: when the fetch succeeds and both strategies yield no record, the
\* caller receives the not-found response with the query and an empty data
\* list, and the query cache is left unchanged
C6_ZeroMatchesNotFound ==
    [][(/\ SearchEnds
        /\ response'.fetch.ok
        /\ ExtractableItems(response'.fetch.html) = <<>>
        /\ \/ MatchVideoIds(response'.fetch.html) = <<>>
           \/ MatchTitles(response'.fetch.html) = <<>>) =>
          /\ response'.status = 404
          /\ requests[response'.req] > 0
          /\ response'.query = response'.req.q
          /\ response'.data = <<>>
          /\ musicCache' = musicCache
          /\ cacheIdCounter' = cacheIdCounter]_vars

\* a search without matches has been answered while the query cache holds an
\* entry for its query
C6_Witness ==
    /\ Answered /\ response.fetch.ok
    /\ response.status = 404
    /\ response.fetch.html # <<>>
    /\ RowsFor(musicCache, Canon(response.query)) # <<>>

\* C7: whenever the scrape returned at least one record the caller gets the
\* success response with the full list, whether saveToCache succeeded or threw
C7_CacheFailureNotFatal ==
    Answered =>
        LET videos == ScrapeYouTubeSearch(response.fetch, response.req.limit)
        IN  Len(videos) >= 1 =>
               /\ response.status = 200
               /\ response.total = Len(videos)
               /\ Len(response.data) = Len(videos)
               /\ \A i \in 1..Len(videos) : response.data[i] = videos[i]

\* a search has been answered with two records after its cache write threw
C7_Witness ==
    /\ Answered
    /\ response.saveThrew
    /\ response.status = 200
    /\ response.total = 2

----------------------------------------------------------------------------
(* Claims: the detail cache *)

Elapsed(k) == now - insertedAt[k]

GetNow(k) == NodeCacheGet(searchCache, k, now).value

\* C10: an entry inserted at time T is returned by get at T+899s and is
\* absent at T+901s; no entry is served once 900 seconds have passed since
\* its insertion
C10_AbsentFrom900 ==
    \A k \in TrackKeys :
        insertedAt[k] >= 0 =>
            /\ Elapsed(k) <= 899 => GetNow(k) # <<>>
            /\ Elapsed(k) >= 900 => GetNow(k) = <<>>

\* C10 as amended: the entry is returned up to and including T+900s and is
\* absent from T+901s on; no entry is served once more than 900 seconds
\* have passed since its insertion
C10_AbsentAfter900 ==
    /\ \A k \in TrackKeys :
          insertedAt[k] >= 0 =>
              /\ Elapsed(k) <= 900 => GetNow(k) # <<>>
              /\ Elapsed(k) >= 901 => GetNow(k) = <<>>
    /\ (trackResp.cached /\ trackResp.at = now) =>
          /\ insertedAt[CacheKey(trackResp.id)] >= 0
          /\ Elapsed(CacheKey(trackResp.id)) <= 900

\* a request has been answered from the cache 899 seconds after the entry
\* was set, and the entry of the other track is 901 seconds old and gone
C10_Witness ==
    /\ trackResp.cached /\ trackResp.at = now
    /\ Elapsed(CacheKey(trackResp.id)) = 899
    /\ \E k \in TrackKeys :
          insertedAt[k] >= 0 /\ Elapsed(k) >= 901 /\ GetNow(k) = <<>>

----------------------------------------------------------------------------
(* Claims: the extractor, script blocks and the fallback trigger *)

\* the last position of the script block that starts at b
BlockEnd(doc, b) ==
    LET later == {j \in b + 1..Len(doc) : doc[j].t = "script"}
    IN  IF later = {} THEN Len(doc) ELSE (CHOOSE j \in later : \A k \in later : j <= k) - 1

\* where a block fails: at its start when it cannot be decoded or lacks the
\* path, at its first section whose contents cannot be iterated; 0 if nowhere
FailurePoint(doc, b) ==
    LET broken == {j \in b + 1..BlockEnd(doc, b) :
                      doc[j].t = "section" /\ doc[j].kind = "broken"}
    IN  IF doc[b].kind \in {"badjson", "nopath"} THEN b
        ELSE IF doc[b].kind = "ok" /\ broken # {}
        THEN CHOOSE j \in broken : \A k \in broken : j <= k
        ELSE 0

\* the blocks whose failure the scan runs into: fewer than maxResults records
\* have been collected when the failure point is reached
FailedBlocks(doc, maxResults) ==
    {b \in 1..Len(doc) :
        /\ doc[b].t = "script"
        /\ FailurePoint(doc, b) > 0
        /\ Cardinality({i \in ExtractablePositions(doc) : i < FailurePoint(doc, b)})
              < maxResults}

\* the extractable positions outside every failed block
CleanPositions(doc, maxResults) ==
    {i \in ExtractablePositions(doc) : BlockAt(doc, i) \notin FailedBlocks(doc, maxResults)}

PrefixOf(seq, n) == SubSeq(seq, 1, Min(n, Len(seq)))

RendererVideos(items) == [i \in 1..Len(items) |-> VideoOfRenderer(items[i])]

\* C15 as stated: a script block that fails contributes no record at all;
\* the records of the other blocks are returned, up to maxResults
C15_FailedBlockYieldsNothing ==
    (ScrapeDone /\ FailedBlocks(call.fetch.html, call.maxResults) # {}
        /\ ExtractableItems(call.fetch.html) # <<>>) =>
        call.result =
            PrefixOf(RendererVideos(InOrder(call.fetch.html, CleanPositions(call.fetch.html, call.maxResults))),
                     call.maxResults)

\* C15: a script block that fails does not abort the extraction: the records
\* collected before the failure (from earlier blocks, and from the sections
\* of that block before the failing one) are kept, the block contributes
\* nothing after its failure, and the scan continues with the next block
C15_BlockFailureIsLocal ==
    (ScrapeDone /\ FailedBlocks(call.fetch.html, call.maxResults) # {}
        /\ ExtractableItems(call.fetch.html) # <<>>) =>
        /\ call.result =
              PrefixOf(RendererVideos(ExtractableItems(call.fetch.html)), call.maxResults)
        /\ \A b \in FailedBlocks(call.fetch.html, call.maxResults) :
              LET before == {i \in ExtractablePositions(call.fetch.html) : i < b}
                  kept == PrefixOf(RendererVideos(InOrder(call.fetch.html, before)),
                                   call.maxResults)
              IN  /\ Len(kept) <= Len(call.result)
                  /\ SubSeq(call.result, 1, Len(kept)) = kept

\* a block that cannot be decoded, then a block with two video items: the
\* scan has gone on to the second block and returned both records
C15_Witness ==
    /\ ScrapeDone
    /\ call.fetch.html = <<ScriptToken("badjson"), ScriptToken("ok"),
                           ItemToken(ItemFull), ItemToken(ItemPlain)>>
    /\ call.maxResults = 2
    /\ call.result = <<VideoOfRenderer(ItemFull), VideoOfRenderer(ItemPlain)>>

\* C16: no list the scraper returns holds a record with an empty videoId,
\* and no list holds two records with the same videoId
C16_VideoIdsDistinct ==
    (call.fn = "scrape" /\ call.done) =>
        /\ \A i \in 1..Len(call.result) : call.result[i].videoId # ""
        /\ \A i, j \in 1..Len(call.result) :
              i # j => call.result[i].videoId # call.result[j].videoId

\* C17: the list returned never has more than maxResults records, whatever
\* the number of script blocks; with more extractable items than maxResults
\* it has exactly maxResults, and the total of the response built from a
\* non-empty list lies between 1 and maxResults
C17_CapAcrossBlocks ==
    (call.fn = "scrape" /\ call.done) =>
        /\ Len(call.result) <= call.maxResults
        /\ (call.fetch.ok /\ Len(ExtractableItems(call.fetch.html)) >= call.maxResults)
              => Len(call.result) = call.maxResults
        /\ call.result # <<>> =>
              SuccessResponse(Pending(<<"b">>, call.maxResults), call.fetch,
                              call.result, FALSE).total \in 1..call.maxResults

\* two script blocks with the marker, a video item in each, maxResults = 1:
\* one record is returned
C17_Witness ==
    /\ ScrapeDone
    /\ call.maxResults = 1
    /\ Len(call.result) = 1
    /\ \E i, j \in ExtractablePositions(call.fetch.html) :
          BlockAt(call.fetch.html, i) # BlockAt(call.fetch.html, j)

\* C18: whenever the primary strategy yields a record, the list returned is
\* made of primary records only: the first min(N, maxResults) video items of
\* the structured data, nothing from the fallback patterns
C18_FallbackOnlyWhenEmpty ==
    (ScrapeDone /\ ExtractableItems(call.fetch.html) # <<>>) =>
        LET items == ExtractableItems(call.fetch.html)
            n == Min(Len(items), call.maxResults)
        IN  /\ Len(call.result) = n
            /\ \A i \in 1..n : call.result[i] = VideoOfRenderer(items[i])

\* the primary strategy has yielded one record with maxResults = 2, on a
\* document where the fallback patterns match two records
C18_Witness ==
    /\ ScrapeDone
    /\ Len(ExtractableItems(call.fetch.html)) = 1
    /\ call.maxResults = 2
    /\ Len(FallbackVideos(call.fetch.html, call.maxResults)) = 2
    /\ Len(call.result) = 1

----------------------------------------------------------------------------
(* Claims: the search route, failures, fetches and validation *)

\* the response answers a request whose fetch failed
FetchFailed(resp) == resp.req # NoPending /\ ~resp.fetch.ok

\* C11: a search is answered with a server error exactly when its fetch
\* failed; a request whose page was fetched is answered 200 or 404 whatever
\* happened while parsing it or writing the cache
C11_OnlyFetchFailureFails ==
    response.status # 0 =>
        /\ response.status = 500 => FetchFailed(response)
        /\ FetchFailed(response) => response.status = 500
        /\ (response.req # NoPending /\ response.fetch.ok) => response.status \in {200, 404}

\* C12: every search request that was accepted is eventually answered
C12_EverySearchAnswered == (Outstanding > 0) ~> (Outstanding = 0)

IsValidQuery(q) == q.kind = "string" /\ q.chars # <<>>

\* C13: every search request that passes validation puts exactly one fetch
\* in flight, whatever the query cache holds and whatever is in flight
\* already, and the end of a search issues no further fetch
C13_OneFetchPerSearch ==
    [][/\ \A q \in SearchQueryParams, m \in SearchLimitParams, user \in BOOLEAN,
             dbUp \in BOOLEAN :
             (IsValidQuery(q) /\ SearchBegin(q, m, user, dbUp)) => InFlight' = InFlight + 1
       /\ \A r \in PendingTypes, fetch \in SearchFetches, dbUp \in BOOLEAN :
             SearchFinish(r, fetch, dbUp) => InFlight' = InFlight - 1]_vars

\* C14: a request whose q is missing, empty or not a string is answered 400
\* and changes neither the fetches in flight, nor the analytics events, nor
\* the query cache; every fetch in flight is for a non-empty query
C14_BadQueryRejectedFirst ==
    /\ [](\A r \in PendingTypes : requests[r] + silent[r] > 0 => r.q # <<>>)
    /\ [][\A q \in SearchQueryParams, m \in SearchLimitParams, user \in BOOLEAN,
             dbUp \in BOOLEAN :
             (~IsValidQuery(q) /\ SearchBegin(q, m, user, dbUp)) =>
                 /\ response'.status = 400
                 /\ UNCHANGED <<requests, silent, analyticsEvents, musicCache,
                                cacheIdCounter>>]_vars

\* a bad request has been refused on a server that has recorded the search
\* event of a logged-in user and cached the result of a search
C14_Witness ==
    /\ response.status = 400
    /\ Len(analyticsEvents) = 1
    /\ musicCache # <<>>
    /\ Outstanding = 0

----------------------------------------------------------------------------
(* Claims: usernames and playlists *)

\* C19: no two stored users have the same username
C19_UsernamesUnique ==
    \A i, j \in 1..Len(users) : i # j => users[i].username # users[j].username

\* a deletePlaylist step for playlist id, of either storage
DeleteStep(id) ==
    DeletePlaylistMem(id) \/ DeletePlaylistTracks(id) \/ DeletePlaylistRow(id)

\* C20: once a deletePlaylist(id) call has settled it has resolved, the
\* playlist is gone and no stored track has playlistId = id; its steps leave
\* every other playlist and every track of another playlist as they were
C20_DeleteCascades ==
    /\ [](playlistOp.op = "delete" =>
            /\ playlistOp.outcome = "resolved"
            /\ playlistOp.id \notin playlists
            /\ TracksOf(tracks, playlistOp.id) = <<>>)
    /\ [][\A id \in CallPlaylistIds :
             DeleteStep(id) =>
                 /\ playlists' \ {id} = playlists \ {id}
                 /\ TracksNotOf(tracks', id) = TracksNotOf(tracks, id)]_vars

\* ---------------------------------------------------------------------
\* C21: the Detail Cache is read through. A request for a track whose key
\* track:id holds an unexpired entry is answered 200 with that entry and no
\* Deezer lookup is started; a request that finds no such entry starts
\* exactly one lookup and the end of a lookup never starts another; a
\* lookup that succeeded stores its trackData under track:id and under no
\* other key; a lookup that failed is answered with an error status and
\* the entries the cache serves are what they were.
Unexpired(k) == insertedAt[k] >= 0 /\ now <= insertedAt[k] + StdTTL

Served(cache, time) == [k \in TrackKeys |-> NodeCacheGet(cache, k, time).value]

LookupSucceeded(upstream) == upstream.ok /\ upstream.http = 200 /\ upstream.artist # <<>>

C21_ReadThrough ==
    [][ /\ \A id \in TrackIds :
             TrackBegin(id) =>
                 IF Unexpired(CacheKey(id))
                 THEN /\ lookups' = lookups
                      /\ trackResp'.status = 200
                      /\ trackResp'.id = id
                      /\ trackResp'.body = Served(searchCache, now)[CacheKey(id)]
                      /\ trackResp'.body # <<>>
                      /\ Served(searchCache', now') = Served(searchCache, now)
                 ELSE /\ lookups' = [lookups EXCEPT ![id] = @ + 1]
                      /\ Served(searchCache', now') = Served(searchCache, now)
        /\ \A id \in TrackIds : \A upstream \in DeezerOutcomes(id) :
             TrackFinish(id, upstream) =>
                 /\ lookups' = [lookups EXCEPT ![id] = @ - 1]
                 /\ IF LookupSucceeded(upstream)
                    THEN /\ Served(searchCache', now') =
                               [Served(searchCache, now) EXCEPT
                                    ![CacheKey(id)] = <<TrackData(upstream)>>]
                         /\ trackResp'.status = 200
                         /\ trackResp'.body = <<TrackData(upstream)>>
                    ELSE /\ Served(searchCache', now') = Served(searchCache, now)
                         /\ trackResp'.status >= 400
                         /\ trackResp'.body = <<>>
      ]_vars

\* a lookup for one track has just failed with Deezer's 404 and left no
\* entry, while the other track's entry, stored by its own lookup, is served
C21_Witness ==
    /\ trackResp.status = 404
    /\ trackResp.at = now
    /\ lookups[trackResp.id] = 0
    /\ Served(searchCache, now)[CacheKey(trackResp.id)] = <<>>
    /\ \E k \in TrackKeys : k # CacheKey(trackResp.id) /\ Unexpired(k)
                               /\ Served(searchCache, now)[k] # <<>>

====
